---- MODULE Spec2Model ----
(***************************************************************************)
(* Model of app.py: the e-mail processing pipeline (duplicate detection,   *)
(* classification through the OpenRouter DeepSeek call with three-line     *)
(* parsing, field extraction) and its callers process_email_file and       *)
(* gradio_process_email.                                                   *)
(*                                                                         *)
(* Python strings are TLA+ strings; a character is a string of length 1.   *)
(* Python None is the model value None.  A float is the record             *)
(* [num, den] of its decimal numeral in lowest power-of-ten terms.         *)
(***************************************************************************)
EXTENDS Integers, Sequences, FiniteSets, TLC

\* Number of request threads serving gradio_process_email.
NThreads == 2

Threads == 1..NThreads

None == "<None>"

(***************************************************************************)
(* Module-level configuration, app.py lines 10-20.                         *)
(***************************************************************************)
REQUEST_TYPES ==
    << "Adjustment", "AU Trasfer", "Closing Notice", "Commitment Change",
       "Fee Payment", "Money Movement Inbound", "Money Movement Outbound" >>

SUB_REQUEST_TYPES ==
    [ k \in { "Closing Notice", "Commitment Change", "Fee Payment",
              "Money Movement Inbound", "Money Movement Outbound" } |->
        CASE k = "Closing Notice" ->
               << "Reallocation Fees", "Amendment Fees", "Reallocation Principal" >>
          [] k = "Commitment Change" ->
               << "Cashless Roll", "Decrease", "Increase" >>
          [] k = "Fee Payment" ->
               << "Ongoing Fee", "Letter of Credit Fee" >>
          [] k = "Money Movement Inbound" ->
               << "Principal", "Interest", "Principal+Interest", "Principal+Interest+Fee" >>
          [] k = "Money Movement Outbound" ->
               << "Timebound", "Foreign Currency" >> ]

\* Python's "x in list".
InList(x, l) == \E i \in 1..Len(l) : l[i] = x

(***************************************************************************)
(* String helpers: the str methods and the regular expressions app.py uses.*)
(***************************************************************************)
Char(s, i) == SubSeq(s, i, i)

\* The ASCII characters str.strip() and the regex class \s remove/match.
IsSpace(c) == c \in { " ", "\t", "\n", "\r" }

IsDigit(c) == c \in { "0", "1", "2", "3", "4", "5", "6", "7", "8", "9" }

\* Index of the first character of s at or after i that is not whitespace
\* (Len(s) + 1 if there is none).
RECURSIVE SkipSpace(_, _)
SkipSpace(s, i) ==
    IF i <= Len(s) /\ IsSpace(Char(s, i)) THEN SkipSpace(s, i + 1) ELSE i

\* Index of the last character of s at or before i that is not whitespace
\* (0 if there is none).
RECURSIVE SkipSpaceBack(_, _)
SkipSpaceBack(s, i) ==
    IF i >= 1 /\ IsSpace(Char(s, i)) THEN SkipSpaceBack(s, i - 1) ELSE i

\* str.strip()
Strip(s) == SubSeq(s, SkipSpace(s, 1), SkipSpaceBack(s, Len(s)))

\* s.startswith(p, i - 1): p occurs in s at index i.
MatchAt(s, p, i) ==
    /\ i >= 1
    /\ i + Len(p) - 1 <= Len(s)
    /\ SubSeq(s, i, i + Len(p) - 1) = p

\* "p in s" for strings.
Contains(s, p) == \E i \in 1..(Len(s) + 1) : MatchAt(s, p, i)

\* str.split("\n")
RECURSIVE SplitFrom(_, _, _)
SplitFrom(s, start, i) ==
    IF i > Len(s) THEN << SubSeq(s, start, Len(s)) >>
    ELSE IF Char(s, i) = "\n"
         THEN << SubSeq(s, start, i - 1) >> \o SplitFrom(s, i + 1, i + 1)
         ELSE SplitFrom(s, start, i + 1)

SplitLines(s) == SplitFrom(s, 1, 1)

\* [line.strip() for line in raw if line.strip()]
RECURSIVE StripNonBlank(_)
StripNonBlank(raw) ==
    IF raw = << >> THEN << >>
    ELSE IF Strip(Head(raw)) # ""
         THEN << Strip(Head(raw)) >> \o StripNonBlank(Tail(raw))
         ELSE StripNonBlank(Tail(raw))

\* Index just past the longest run of characters of class cls (a set of
\* characters) that starts at i: the greedy match of [cls]* at i.
RECURSIVE RunEnd(_, _, _)
RunEnd(s, cls, i) ==
    IF i <= Len(s) /\ Char(s, i) \in cls THEN RunEnd(s, cls, i + 1) ELSE i

Digits == { "0", "1", "2", "3", "4", "5", "6", "7", "8", "9" }

(***************************************************************************)
(* Floats.  float(s) for a numeral s made of digits and dots; the value is *)
(* num/den with den a power of ten and no common factor ten.  NoneFloat    *)
(* stands for a confidence of None.                                        *)
(***************************************************************************)
NoneFloat == [num |-> 0, den |-> 0]

Float(n, d) == [num |-> n, den |-> d]

DigitVal(c) ==
    CASE c = "0" -> 0 [] c = "1" -> 1 [] c = "2" -> 2 [] c = "3" -> 3
      [] c = "4" -> 4 [] c = "5" -> 5 [] c = "6" -> 6 [] c = "7" -> 7
      [] c = "8" -> 8 [] c = "9" -> 9

RECURSIVE CountChar(_, _)
CountChar(s, c) ==
    IF s = "" THEN 0
    ELSE (IF Char(s, 1) = c THEN 1 ELSE 0) + CountChar(SubSeq(s, 2, Len(s)), c)

\* Value of the digits of s read as one integer, dots skipped.
RECURSIVE DigitsValue(_, _)
DigitsValue(s, acc) ==
    IF s = "" THEN acc
    ELSE IF Char(s, 1) = "."
         THEN DigitsValue(SubSeq(s, 2, Len(s)), acc)
         ELSE DigitsValue(SubSeq(s, 2, Len(s)), 10 * acc + DigitVal(Char(s, 1)))

\* Number of characters of s after its first dot (0 if it has none).
RECURSIVE FracLen(_)
FracLen(s) ==
    IF s = "" THEN 0
    ELSE IF Char(s, 1) = "." THEN Len(s) - 1
         ELSE FracLen(SubSeq(s, 2, Len(s)))

RECURSIVE Pow10(_)
Pow10(k) == IF k = 0 THEN 1 ELSE 10 * Pow10(k - 1)

RECURSIVE Normalise(_, _)
Normalise(n, d) ==
    IF d > 1 /\ n % 10 = 0 THEN Normalise(n \div 10, d \div 10) ELSE Float(n, d)

\* float(s) raises ValueError: s (digits and dots only) is not a numeral.
FloatRaises(s) == CountChar(s, ".") > 1 \/ CountChar(s, ".") = Len(s)

\* float(s) for a numeral s.
FloatOf(s) == Normalise(DigitsValue(s, 0), Pow10(FracLen(s)))

(***************************************************************************)
(* re.search(r"Confidence:\s*([\d\.]+)", line): group 1 of the leftmost    *)
(* match, or None.                                                         *)
(***************************************************************************)
RECURSIVE SearchConfidence(_, _)
SearchConfidence(line, i) ==
    IF i > Len(line) THEN None
    ELSE IF MatchAt(line, "Confidence:", i)
         THEN LET k == SkipSpace(line, i + Len("Confidence:"))
                  e == RunEnd(line, Digits \cup {"."}, k)
              IN  IF e > k THEN SubSeq(line, k, e - 1)
                  ELSE SearchConfidence(line, i + 1)
         ELSE SearchConfidence(line, i + 1)

\* app.py lines 93-100
ParseConfidence(lines) ==
    IF Len(lines) > 2
    THEN LET g == SearchConfidence(lines[3], 1)
         IN  IF g # None
             THEN IF FloatRaises(g) THEN NoneFloat ELSE FloatOf(g)
             ELSE NoneFloat
    ELSE NoneFloat

(***************************************************************************)
(* The three-line parser, app.py lines 80-106.                             *)
(***************************************************************************)
\* line 80
ResponseLines(response_text) == StripNonBlank(SplitLines(Strip(response_text)))

\* line 82
PrimaryOf(lines) == IF Len(lines) > 0 THEN lines[1] ELSE "Unknown"

\* The validation of lines 86-90 with the check against the allowed list
\* left out.
ValidateSub_NoCheck(sub_request, primary_request) ==
    IF sub_request # None /\ primary_request \in DOMAIN SUB_REQUEST_TYPES
    THEN sub_request
    ELSE None

\* lines 86-90: sub_request is kept only if the primary has an allowed list
\* and the sub request is in it.
ValidateSub(sub_request, primary_request) ==
    IF sub_request # None /\ primary_request \in DOMAIN SUB_REQUEST_TYPES
    THEN IF ~InList(sub_request, SUB_REQUEST_TYPES[primary_request])
         THEN None
         ELSE sub_request
    ELSE None

\* lines 83-90
SubOf(lines) ==
    LET candidate == IF Len(lines) > 1 /\ lines[2] # "" THEN lines[2] ELSE None
    IN  ValidateSub(candidate, PrimaryOf(lines))

\* lines 80-106: the dict returned for a 200 response with text content.
ParseResponseText(response_text) ==
    LET lines == ResponseLines(response_text)
    IN  [ primary_request |-> PrimaryOf(lines),
          sub_request     |-> SubOf(lines),
          confidence      |-> ParseConfidence(lines),
          details         |-> "DeepSeek R1 analysis confirms the classification." ]

(***************************************************************************)
(* Field extraction, app.py lines 116-131.                                 *)
(***************************************************************************)
Letters ==
    { "a", "b", "c", "d", "e", "f", "g", "h", "i", "j", "k", "l", "m",
      "n", "o", "p", "q", "r", "s", "t", "u", "v", "w", "x", "y", "z",
      "A", "B", "C", "D", "E", "F", "G", "H", "I", "J", "K", "L", "M",
      "N", "O", "P", "Q", "R", "S", "T", "U", "V", "W", "X", "Y", "Z" }

Spaces == { " ", "\t", "\n", "\r" }

\* The regex class [\w\s\-].
DealChars == Letters \cup Digits \cup {"_"} \cup Spaces \cup {"-"}

\* re.search(r"Deal:\s*([\w\s\-]+)", text): group 1 of the leftmost match,
\* or None.  \s* is greedy; when nothing of the class follows the
\* whitespace, the regex backtracks and the group is the last whitespace
\* character.
RECURSIVE SearchDeal(_, _)
SearchDeal(text, i) ==
    IF i > Len(text) THEN None
    ELSE IF MatchAt(text, "Deal:", i)
         THEN LET j == i + Len("Deal:")
                  k == SkipSpace(text, j)
                  e == RunEnd(text, DealChars, k)
              IN  IF e > k THEN SubSeq(text, k, e - 1)
                  ELSE IF k > j THEN SubSeq(text, k - 1, k - 1)
                  ELSE SearchDeal(text, i + 1)
         ELSE SearchDeal(text, i + 1)

\* re.search(r"\$\s*([\d,]+(?:\.\d{2})?)", text): group 1 or None.
RECURSIVE SearchAmount(_, _)
SearchAmount(text, i) ==
    IF i > Len(text) THEN None
    ELSE IF Char(text, i) = "$"
         THEN LET k == SkipSpace(text, i + 1)
                  e == RunEnd(text, Digits \cup {","}, k)
                  cents == /\ e + 2 <= Len(text)
                           /\ Char(text, e) = "."
                           /\ IsDigit(Char(text, e + 1))
                           /\ IsDigit(Char(text, e + 2))
              IN  IF e > k
                  THEN SubSeq(text, k, IF cents THEN e + 2 ELSE e - 1)
                  ELSE SearchAmount(text, i + 1)
         ELSE SearchAmount(text, i + 1)

\* text[i-1 : i-1+n] is n digits.
DigitsAt(text, i, n) ==
    /\ i + n - 1 <= Len(text)
    /\ \A j \in i..(i + n - 1) : IsDigit(Char(text, j))

\* \d{1,2}/\d{1,2}/\d{4} matches at i with a digits, then b digits.
DateAt(text, i, a, b) ==
    /\ DigitsAt(text, i, a)
    /\ MatchAt(text, "/", i + a)
    /\ DigitsAt(text, i + a + 1, b)
    /\ MatchAt(text, "/", i + a + 1 + b)
    /\ DigitsAt(text, i + a + b + 2, 4)

\* re.search(r"(\d{1,2}/\d{1,2}/\d{4})", text): group 1 or None.  Each
\* \d{1,2} is greedy: two digits are tried before one.
RECURSIVE SearchDate(_, _)
SearchDate(text, i) ==
    IF i > Len(text) THEN None
    ELSE IF DateAt(text, i, 2, 2) THEN SubSeq(text, i, i + 9)
    ELSE IF DateAt(text, i, 2, 1) THEN SubSeq(text, i, i + 8)
    ELSE IF DateAt(text, i, 1, 2) THEN SubSeq(text, i, i + 8)
    ELSE IF DateAt(text, i, 1, 1) THEN SubSeq(text, i, i + 7)
    ELSE SearchDate(text, i + 1)

\* lines 116-131
extract_fields(email_text) ==
    LET deal_match == SearchDeal(email_text, 1)
    IN  [ deal_name       |-> IF deal_match # None THEN Strip(deal_match) ELSE None,
          amount          |-> SearchAmount(email_text, 1),
          expiration_date |-> SearchDate(email_text, 1) ]

\* lines 151-155: one extraction per attachment, in order.
RECURSIVE ExtractAttachments(_)
ExtractAttachments(attachments) ==
    IF attachments = << >> THEN << >>
    ELSE << extract_fields(Head(attachments)) >> \o ExtractAttachments(Tail(attachments))

(***************************************************************************)
(* Duplicate detection, app.py lines 23-36.                                *)
(***************************************************************************)
\* The e-mail texts submitted; the empty text is one of them.
Texts == { "", "Deal: Falcon $5", "Pay $12,500.00 by 5/1/2025" }

\* A hash function under which the texts collide.
compute_email_hash_Collide(email_text) ==
    "e3b0c44298fc1c149afbf4c8996fb92427ae41e4649b934ca495991b7852b855"

\* lines 25-27: hashlib.sha256(email_text.encode("utf-8")).hexdigest(),
\* tabulated for the texts submitted.
compute_email_hash(email_text) ==
    CASE email_text = "" ->
           "e3b0c44298fc1c149afbf4c8996fb92427ae41e4649b934ca495991b7852b855"
      [] email_text = "Deal: Falcon $5" ->
           "4924282c4f982cbeda4f1e5081ec45e80a10ac21a4eae11a984257dac3302047"
      [] email_text = "Pay $12,500.00 by 5/1/2025" ->
           "d906f73961c897409b6ba86a8b6300b39a05bc67c23e3a70efb020948b21edee"

\* line 33: f"Duplicate email detected (hash: {email_hash})."
DuplicateReason(email_hash) ==
    "Duplicate email detected (hash: " \o email_hash \o ")."

\* A set update that forgets what was stored.
StoreAdd_Forget(store, email_hash) == { email_hash }

\* line 35: email_hash_set.add(email_hash)
StoreAdd(store, email_hash) == store \cup { email_hash }

(***************************************************************************)
(* The HTTP exchange of call_openrouter_deepseek, app.py lines 74-78.      *)
(* A response is its status code, the shape of its JSON body, the message  *)
(* content of that body and its raw text.                                  *)
(***************************************************************************)
NoResponse == [ status_code |-> 0, json |-> None, content |-> None, text |-> None ]

\* A 200 response whose body is {"choices": [{"message": {"content": c}}]}.
Completion(c) ==
    [ status_code |-> 200, json |-> "content", content |-> c, text |-> None ]

\* A 200 response whose body has another shape: "no_choices" is a JSON
\* object without the key "choices", "empty_choices" has "choices": [],
\* "null_content" has "content": null, "not_json" is not JSON at all.
OddBody(shape) ==
    [ status_code |-> 200, json |-> shape, content |-> None, text |-> None ]

\* A response with a non-success status.
Failure(code, text) ==
    [ status_code |-> code, json |-> None, content |-> None, text |-> text ]

\* The answers the backend gives to the pipeline: a well-formed completion,
\* one that does not follow the three-line format, a body that is not JSON
\* and a non-success status.
Responses ==
    { Completion("Fee Payment\nOngoing Fee\nConfidence: 0.87"),
      Completion("Primary Request Type: Fee Payment"),
      OddBody("not_json"),
      Failure(429, "Rate limit exceeded") }

\* The lines a completion is made of.
FirstLines ==
    { REQUEST_TYPES[i] : i \in 1..Len(REQUEST_TYPES) }
      \cup { "", "  Closing Notice \t", "Unknown", "Error", "fee payment",
             "Primary Request Type: Fee Payment" }

SecondLines ==
    { "", " \t", "Ongoing Fee", "Cashless Roll", "Principal+Interest",
      " Reallocation Fees ", "Timebound", "N/A", "Sub Request Type: Increase" }

ThirdLines ==
    { "", "Confidence: 0.87", "Confidence:0.50 ", "Confidence: 1.5",
      "Confidence: high", "Confidence: 1.2.3", "Confidence: .",
      "My Confidence: x Confidence:\t7.", "confidence: 0.9" }

\* The completions the parser is applied to: three lines, two lines, one
\* line, and the three lines followed by a remark.
ParserContents ==
    { a \o "\n" \o b \o "\n" \o c : a \in FirstLines, b \in SecondLines, c \in ThirdLines }
      \cup { a \o "\n" \o b : a \in FirstLines, b \in SecondLines }
      \cup FirstLines
      \cup { a \o "\n" \o b \o "\n" \o c \o "\n\nConfidence: 0.1" :
                a \in { "Fee Payment" }, b \in SecondLines, c \in ThirdLines }

\* The responses call_openrouter_deepseek is applied to.
ParserResponses ==
    { Completion(c) : c \in ParserContents }
      \cup { OddBody(b) : b \in { "no_choices", "empty_choices", "null_content", "not_json" } }
      \cup { Failure(429, "Rate limit exceeded"), Failure(500, ""),
             Failure(404, "Fee Payment\nOngoing Fee\nConfidence: 0.87") }

\* str(n) for n >= 0.
RECURSIVE IntToStr(_)
IntToStr(n) ==
    LET d == CHOOSE c \in Digits : DigitVal(c) = n % 10
    IN  IF n < 10 THEN d ELSE IntToStr(n \div 10) \o d

\* lines 77-78 raise: response.json() fails on a body that is not JSON,
\* [0] fails on an empty "choices" list; line 80 raises on content None.
BodyRaises(r) == r.json \in { "not_json", "empty_choices", "null_content" }

\* line 78: result.get("choices", [{}])[0].get("message", {}).get("content", "Unknown")
ResponseText(r) == IF r.json = "content" THEN r.content ELSE "Unknown"

\* lines 108-113
ErrorResult(r) ==
    [ primary_request |-> "Error",
      sub_request     |-> None,
      confidence      |-> Float(0, 1),
      details         |-> "Error calling DeepSeek API: " \o IntToStr(r.status_code)
                              \o " " \o r.text ]

\* lines 76-113: the dict call_openrouter_deepseek returns for response r.
ClassificationOf(r) ==
    IF r.status_code = 200 THEN ParseResponseText(ResponseText(r)) ELSE ErrorResult(r)

\* ClassificationOf tabulated over the responses that occur, so that it is
\* computed once per response.
ClassificationTable ==
    [ r \in { q \in Responses \cup ParserResponses : ~BodyRaises(q) } |->
        ClassificationOf(r) ]

\* extract_fields tabulated over the texts that occur.
ExtractTable == [ x \in Texts |-> extract_fields(x) ]

NoResult ==
    [ primary_request |-> None, sub_request |-> None, confidence |-> NoneFloat,
      details |-> None ]

NoFields == [ deal_name |-> None, amount |-> None, expiration_date |-> None ]

\* process_email_file calls process_email(email_text): attachments is None.
NoAttachments == << >>

\* A pipeline that skips classification for a duplicate.
AfterIsDuplicate_ShortCircuit(flag) == IF flag THEN "extract" ELSE "classify"

\* lines 142-145: the classifier call follows is_duplicate whatever the flag.
AfterIsDuplicate(flag) == "classify"

(***************************************************************************)
(* State.                                                                  *)
(***************************************************************************)
VARIABLES
    email_hash_set,     \* line 23: the module-level set of hashes
    pc,                 \* where each request thread is
    email_text,         \* process_email's argument
    email_hash,         \* is_duplicate's local
    duplicate_flag,     \* line 142
    duplicate_reason,   \* line 142
    response,           \* line 74, local to call_openrouter_deepseek
    deepseek_result,    \* line 145
    extracted_fields,   \* line 148
    attachment_results, \* line 151
    classifier_calls,   \* requests.post calls made by the invocation
    called,             \* history: texts is_duplicate has returned for
    fresh_count,        \* history: per text, calls that returned duplicate=False
    returned            \* history: texts for which process_email returned

vars ==
    << email_hash_set, pc, email_text, email_hash, duplicate_flag,
       duplicate_reason, response, deepseek_result, extracted_fields,
       attachment_results, classifier_calls, called, fresh_count,
       returned >>

locals ==
    << email_text, email_hash, duplicate_flag, duplicate_reason, response,
       deepseek_result, extracted_fields, attachment_results,
       classifier_calls >>

history == << called, fresh_count, returned >>

Init ==
    /\ email_hash_set = {}
    /\ pc = [t \in Threads |-> "idle"]
    /\ email_text = [t \in Threads |-> None]
    /\ email_hash = [t \in Threads |-> None]
    /\ duplicate_flag = [t \in Threads |-> FALSE]
    /\ duplicate_reason = [t \in Threads |-> ""]
    /\ response = [t \in Threads |-> NoResponse]
    /\ deepseek_result = [t \in Threads |-> NoResult]
    /\ extracted_fields = [t \in Threads |-> NoFields]
    /\ attachment_results = [t \in Threads |-> << >>]
    /\ classifier_calls = [t \in Threads |-> 0]
    /\ called = {}
    /\ fresh_count = [x \in Texts |-> 0]
    /\ returned = {}

\* No other request is being served.
Alone(t) == \A u \in Threads \ {t} : pc[u] = "idle"

(***************************************************************************)
(* gradio_process_email and process_email_file, app.py lines 168-215.      *)
(***************************************************************************)
\* lines 208-209: no file, "No file uploaded." is returned.
NoFile(t) ==
    /\ pc[t] = "idle"
    /\ pc' = [pc EXCEPT ![t] = "no_file"]
    /\ UNCHANGED << email_hash_set, locals, history >>

\* lines 174-198 raise: the extension is neither .eml nor .msg, or the file
\* cannot be read or decoded; process_email is not reached.
DecodeError(t) ==
    /\ pc[t] = "idle"
    /\ \E ext \in { ".eml", ".msg", ".txt" } :
          pc' = [pc EXCEPT ![t] = "file_error"]
    /\ UNCHANGED << email_hash_set, locals, history >>

\* lines 174-200: the file decodes to text and process_email(text) is called.
ProcessEmailFile(t) ==
    /\ pc[t] = "idle"
    /\ \E ext \in { ".eml", ".msg" }, text \in Texts :
          email_text' = [email_text EXCEPT ![t] = text]
    /\ pc' = [pc EXCEPT ![t] = "is_duplicate"]
    /\ UNCHANGED << email_hash_set, email_hash, duplicate_flag, duplicate_reason,
                    response, deepseek_result, extracted_fields,
                    attachment_results, classifier_calls, history >>

(***************************************************************************)
(* is_duplicate, app.py lines 29-36, one step per access to the set.       *)
(***************************************************************************)
\* line 31
ComputeHash(t) ==
    /\ pc[t] = "is_duplicate"
    /\ email_hash' = [email_hash EXCEPT ![t] = compute_email_hash(email_text[t])]
    /\ pc' = [pc EXCEPT ![t] = "check"]
    /\ UNCHANGED << email_hash_set, email_text, duplicate_flag, duplicate_reason,
                    response, deepseek_result, extracted_fields,
                    attachment_results, classifier_calls, history >>

\* lines 32-33: the hash is in the set, (True, reason) is returned.
CheckDuplicate(t) ==
    /\ pc[t] = "check"
    /\ email_hash[t] \in email_hash_set
    /\ duplicate_flag' = [duplicate_flag EXCEPT ![t] = TRUE]
    /\ duplicate_reason' = [duplicate_reason EXCEPT ![t] = DuplicateReason(email_hash[t])]
    /\ called' = called \cup { email_text[t] }
    /\ pc' = [pc EXCEPT ![t] = AfterIsDuplicate(TRUE)]
    /\ UNCHANGED << email_hash_set, email_text, email_hash, response,
                    deepseek_result, extracted_fields, attachment_results,
                    classifier_calls, fresh_count, returned >>

\* lines 32, 34: the hash is not in the set, the else branch is taken.
CheckFresh(t) ==
    /\ pc[t] = "check"
    /\ email_hash[t] \notin email_hash_set
    /\ pc' = [pc EXCEPT ![t] = "add"]
    /\ UNCHANGED << email_hash_set, locals, history >>

\* lines 35-36: the hash is added, (False, "") is returned.
AddHash(t) ==
    /\ pc[t] = "add"
    /\ email_hash_set' = StoreAdd(email_hash_set, email_hash[t])
    /\ duplicate_flag' = [duplicate_flag EXCEPT ![t] = FALSE]
    /\ duplicate_reason' = [duplicate_reason EXCEPT ![t] = ""]
    /\ called' = called \cup { email_text[t] }
    /\ fresh_count' = [fresh_count EXCEPT ![email_text[t]] = @ + 1]
    /\ pc' = [pc EXCEPT ![t] = AfterIsDuplicate(FALSE)]
    /\ UNCHANGED << email_text, email_hash, response, deepseek_result,
                    extracted_fields, attachment_results, classifier_calls,
                    returned >>

(***************************************************************************)
(* call_openrouter_deepseek, app.py lines 39-113.                          *)
(***************************************************************************)
\* line 74: requests.post(url, headers, data) is issued; no timeout is given.
CallClassifier(t) ==
    /\ pc[t] = "classify"
    /\ classifier_calls' = [classifier_calls EXCEPT ![t] = @ + 1]
    /\ pc' = [pc EXCEPT ![t] = "wait"]
    /\ UNCHANGED << email_hash_set, email_text, email_hash, duplicate_flag,
                    duplicate_reason, response, deepseek_result,
                    extracted_fields, attachment_results, history >>

\* line 74: the backend answers with some status and body.
Respond(t) ==
    /\ pc[t] = "wait"
    /\ \E r \in Responses : response' = [response EXCEPT ![t] = r]
    /\ pc' = [pc EXCEPT ![t] = "parse"]
    /\ UNCHANGED << email_hash_set, email_text, email_hash, duplicate_flag,
                    duplicate_reason, deepseek_result, extracted_fields,
                    attachment_results, classifier_calls, history >>

\* line 74: requests.post raises (connection refused, DNS failure, reset);
\* nothing between it and gradio_process_email's except clause catches it.
PostRaises(t) ==
    /\ pc[t] = "wait"
    /\ pc' = [pc EXCEPT ![t] = "raised"]
    /\ UNCHANGED << email_hash_set, locals, history >>

\* line 74: the backend accepts the connection and never answers; without a
\* timeout requests.post does not return.
BackendSilent(t) ==
    /\ pc[t] = "wait"
    /\ pc' = [pc EXCEPT ![t] = "blocked"]
    /\ UNCHANGED << email_hash_set, locals, history >>

\* lines 76-113: the response is turned into the classification dict.
ParseResponse(t) ==
    /\ pc[t] = "parse"
    /\ ~(response[t].status_code = 200 /\ BodyRaises(response[t]))
    /\ deepseek_result' = [deepseek_result EXCEPT ![t] = ClassificationTable[response[t]]]
    /\ pc' = [pc EXCEPT ![t] = "extract"]
    /\ UNCHANGED << email_hash_set, email_text, email_hash, duplicate_flag,
                    duplicate_reason, response, extracted_fields,
                    attachment_results, classifier_calls, history >>

\* lines 77-80 raise on a 200 response whose body is not the expected JSON.
ParseRaises(t) ==
    /\ pc[t] = "parse"
    /\ response[t].status_code = 200
    /\ BodyRaises(response[t])
    /\ pc' = [pc EXCEPT ![t] = "raised"]
    /\ UNCHANGED << email_hash_set, locals, history >>

(***************************************************************************)
(* process_email, app.py lines 134-165.                                    *)
(***************************************************************************)
\* lines 148-155
ExtractFields(t) ==
    /\ pc[t] = "extract"
    /\ extracted_fields' = [extracted_fields EXCEPT ![t] = ExtractTable[email_text[t]]]
    /\ attachment_results' =
          [attachment_results EXCEPT ![t] =
              IF NoAttachments # << >> THEN ExtractAttachments(NoAttachments) ELSE << >>]
    /\ pc' = [pc EXCEPT ![t] = "assemble"]
    /\ UNCHANGED << email_hash_set, email_text, email_hash, duplicate_flag,
                    duplicate_reason, response, deepseek_result,
                    classifier_calls, history >>

\* lines 158-164: the dict process_email returns.
Output(t) ==
    [ duplicate                    |-> duplicate_flag[t],
      duplicate_reason             |-> duplicate_reason[t],
      classification               |-> deepseek_result[t],
      extracted_fields             |-> extracted_fields[t],
      attachments_extracted_fields |-> attachment_results[t] ]

\* line 165: process_email returns its output.
Return(t) ==
    /\ pc[t] = "assemble"
    /\ returned' = returned \cup { email_text[t] }
    /\ pc' = [pc EXCEPT ![t] = "done"]
    /\ UNCHANGED << email_hash_set, locals, called, fresh_count >>

\* lines 213-215: gradio_process_email hands the JSON text or the error
\* message to the UI; the request is over and its locals are gone.
Reset(t) ==
    /\ pc[t] \in { "done", "raised", "file_error", "no_file" }
    /\ pc' = [pc EXCEPT ![t] = "idle"]
    /\ email_text' = [email_text EXCEPT ![t] = None]
    /\ email_hash' = [email_hash EXCEPT ![t] = None]
    /\ duplicate_flag' = [duplicate_flag EXCEPT ![t] = FALSE]
    /\ duplicate_reason' = [duplicate_reason EXCEPT ![t] = ""]
    /\ response' = [response EXCEPT ![t] = NoResponse]
    /\ deepseek_result' = [deepseek_result EXCEPT ![t] = NoResult]
    /\ extracted_fields' = [extracted_fields EXCEPT ![t] = NoFields]
    /\ attachment_results' = [attachment_results EXCEPT ![t] = << >>]
    /\ classifier_calls' = [classifier_calls EXCEPT ![t] = 0]
    /\ UNCHANGED << email_hash_set, history >>

(***************************************************************************)
(* Specifications.  Spec: requests are served by concurrent threads.       *)
(* SeqSpec: one request at a time, a request starts when none is running.  *)
(***************************************************************************)
\* The steps of a request once it has started.
Step(t) ==
    \/ ComputeHash(t)
    \/ CheckDuplicate(t)
    \/ CheckFresh(t)
    \/ AddHash(t)
    \/ CallClassifier(t)
    \/ Respond(t)
    \/ PostRaises(t)
    \/ BackendSilent(t)
    \/ ParseResponse(t)
    \/ ParseRaises(t)
    \/ ExtractFields(t)
    \/ Return(t)
    \/ Reset(t)

Next ==
    \E t \in Threads :
        \/ NoFile(t)
        \/ DecodeError(t)
        \/ ProcessEmailFile(t)
        \/ Step(t)

Spec == Init /\ [][Next]_vars

SeqNoFile(t) == Alone(t) /\ NoFile(t)

SeqDecodeError(t) == Alone(t) /\ DecodeError(t)

SeqProcessEmailFile(t) == Alone(t) /\ ProcessEmailFile(t)

NextSeq ==
    \E t \in Threads :
        \/ SeqNoFile(t)
        \/ SeqDecodeError(t)
        \/ SeqProcessEmailFile(t)
        \/ Step(t)

SeqSpec == Init /\ [][NextSeq]_vars

\* A running request takes its next step, and the backend, unless it is
\* silent, delivers its answer or its failure.
FairSeqSpec == SeqSpec /\ \A t \in Threads : WF_vars(Step(t))

(***************************************************************************)
(* ParserSpec: an invocation at the point where the backend has answered,  *)
(* over a wide range of answers; lines 76-113 are applied to the answer.   *)
(***************************************************************************)
ParserInit ==
    /\ \E x \in Texts :
          /\ email_text = [t \in Threads |-> IF t = 1 THEN x ELSE None]
          /\ email_hash = [t \in Threads |-> IF t = 1 THEN compute_email_hash(x) ELSE None]
          /\ email_hash_set = { compute_email_hash(x) }
          /\ called = { x }
          /\ fresh_count = [y \in Texts |-> IF y = x THEN 1 ELSE 0]
    /\ \E r \in ParserResponses :
          response = [t \in Threads |-> IF t = 1 THEN r ELSE NoResponse]
    /\ pc = [t \in Threads |-> IF t = 1 THEN "parse" ELSE "idle"]
    /\ duplicate_flag = [t \in Threads |-> FALSE]
    /\ duplicate_reason = [t \in Threads |-> ""]
    /\ deepseek_result = [t \in Threads |-> NoResult]
    /\ extracted_fields = [t \in Threads |-> NoFields]
    /\ attachment_results = [t \in Threads |-> << >>]
    /\ classifier_calls = [t \in Threads |-> IF t = 1 THEN 1 ELSE 0]
    /\ returned = {}

ParserNext == \E t \in Threads : ParseResponse(t) \/ ParseRaises(t)

ParserSpec == ParserInit /\ [][ParserNext]_vars

(***************************************************************************)
(* Properties.                                                             *)
(***************************************************************************)
\* The set of primary request types.
RequestTypeSet == { REQUEST_TYPES[i] : i \in 1..Len(REQUEST_TYPES) }

\* Thread t has left is_duplicate in this step.
IsDuplicateReturns(t) == pc[t] \in { "check", "add" } /\ pc'[t] \notin { "check", "add" }

\* process_email has a classification dict in hand.
Classified(t) == pc[t] \in { "extract", "assemble", "done" }

\* C1: with one request at a time, is_duplicate returns (False, "") for a
\* text it was not called with before, and (True, reason) with the text's
\* hash inside the reason for a text it was called with before, whatever
\* other texts came in between.
C1_SequentialDuplicateDetection ==
    [][ \A t \in Threads :
          IsDuplicateReturns(t) =>
            IF email_text[t] \in called
            THEN /\ duplicate_flag'[t] = TRUE
                 /\ Contains(duplicate_reason'[t], compute_email_hash(email_text[t]))
            ELSE /\ duplicate_flag'[t] = FALSE
                 /\ duplicate_reason'[t] = "" ]_vars

\* C1 witness: the empty text is reported as a duplicate, with its hash in
\* the reason, after all three texts have been submitted.
C1_Witness ==
    \E t \in Threads :
        /\ pc[t] = "classify"
        /\ email_text[t] = ""
        /\ duplicate_flag[t]
        /\ Contains(duplicate_reason[t], compute_email_hash(""))
        /\ called = Texts

\* C2: of the invocations on one text, running concurrently or not, at most
\* one is told duplicate=False.
C2_AtMostOneFresh == \A x \in Texts : fresh_count[x] <= 1

\* C3: an invocation whose classifier call failed does not end in an
\* exception, and after a non-success status its classification is
\* primary_request "Error", sub_request None, confidence 0.0, with the
\* status in details.
C3_BackendFailureRecovered ==
    \A t \in Threads :
        /\ classifier_calls[t] > 0 => pc[t] # "raised"
        /\ (Classified(t) /\ response[t].status_code # 200) =>
              /\ deepseek_result[t].primary_request = "Error"
              /\ deepseek_result[t].sub_request = None
              /\ deepseek_result[t].confidence = Float(0, 1)
              /\ Contains(deepseek_result[t].details, IntToStr(response[t].status_code))

\* C4: the primary_request of a classification dict is one of REQUEST_TYPES,
\* "Unknown" or "Error", and "Error" only after a non-success status.
C4_PrimaryInTaxonomy ==
    \A t \in Threads :
        Classified(t) =>
            /\ deepseek_result[t].primary_request
                  \in RequestTypeSet \cup { "Unknown", "Error" }
            /\ deepseek_result[t].primary_request = "Error"
                  => response[t].status_code # 200

\* C5: the sub_request of a classification dict is either None or in the
\* allowed list of its primary_request, and parsing a text completion
\* always yields a dict: only a body without text content raises.
C5_SubRequestValidated ==
    \A t \in Threads :
        /\ Classified(t) =>
              \/ deepseek_result[t].sub_request = None
              \/ /\ deepseek_result[t].primary_request \in DOMAIN SUB_REQUEST_TYPES
                 /\ InList(deepseek_result[t].sub_request,
                           SUB_REQUEST_TYPES[deepseek_result[t].primary_request])
        /\ pc[t] = "raised" => BodyRaises(response[t])
        /\ (response[t].status_code # 0 /\ pc[t] # "parse" /\ ~BodyRaises(response[t]))
              => Classified(t) /\ deepseek_result[t] # NoResult

\* C5 witness: primary "Adjustment", which has no allowed list, with the
\* second line "Ongoing Fee": parsed, sub_request None.
C5_Witness ==
    \E t \in Threads :
        /\ pc[t] = "extract"
        /\ response[t].content = "Adjustment\nOngoing Fee\nConfidence: 0.87"
        /\ deepseek_result[t].primary_request = "Adjustment"
        /\ deepseek_result[t].sub_request = None

\* C6: an invocation has made no classifier call before is_duplicate has
\* returned, and exactly one from the call on: while it waits, when the
\* call has failed, during field extraction and at the return, for a
\* duplicate and for a fresh text alike.
C6_ClassifierCalledOnce ==
    \A t \in Threads :
        /\ pc[t] \in { "idle", "no_file", "file_error", "is_duplicate", "check",
                       "add", "classify" }
              => classifier_calls[t] = 0
        /\ pc[t] \in { "wait", "blocked", "parse", "raised", "extract", "assemble",
                       "done" }
              => /\ classifier_calls[t] = 1
                 /\ email_hash[t] \in email_hash_set
        /\ pc[t] \in { "assemble", "done" }
              => deepseek_result[t] # NoResult

\* C6 witness: a duplicate whose classifier call failed has been classified
\* once and has gone through extraction.
C6_Witness ==
    \E t \in Threads :
        /\ pc[t] = "done"
        /\ duplicate_flag[t]
        /\ deepseek_result[t].primary_request = "Error"
        /\ classifier_calls[t] = 1

\* C7: every invocation of process_email eventually returns or raises.
C7_EveryInvocationReturns ==
    \A t \in Threads : (pc[t] = "is_duplicate") ~> (pc[t] \in { "done", "raised" })

\* C8: the hash set never loses an element; an is_duplicate call that
\* returns True leaves it unchanged, one that returns False adds the hash
\* of its text, which was not there, and nothing else; every other step
\* leaves it unchanged.
C8_StoreOnlyGrows ==
    [][ /\ email_hash_set \subseteq email_hash_set'
        /\ \A t \in Threads :
              IsDuplicateReturns(t) =>
                IF duplicate_flag'[t]
                THEN email_hash_set' = email_hash_set
                ELSE /\ email_hash_set' =
                          email_hash_set \cup { compute_email_hash(email_text[t]) }
                     /\ compute_email_hash(email_text[t]) \notin email_hash_set
        /\ (\A t \in Threads : ~IsDuplicateReturns(t))
              => email_hash_set' = email_hash_set ]_vars

\* C8 witness: an invocation has ended in an exception and the three
\* hashes are in the set.
C8_Witness ==
    \E t \in Threads :
        /\ pc[t] = "raised"
        /\ email_hash[t] \in email_hash_set
        /\ Cardinality(email_hash_set) = 3

\* C9: an invocation is told duplicate=True only for a text for which an
\* earlier invocation returned its output, and an invocation that ends in
\* an exception has not left its hash in the set.
C9_DuplicateOnlyAfterReturn ==
    \A t \in Threads :
        /\ (pc[t] \in { "classify", "wait", "blocked", "parse", "raised", "extract",
                        "assemble" } /\ duplicate_flag[t])
              => email_text[t] \in returned
        /\ (pc[t] = "raised" /\ ~duplicate_flag[t])
              => email_hash[t] \notin email_hash_set

\* The numerals of the Confidence line.
Numerals == { "0.87", "1.5" }

\* C10: for a completion of a primary type, a blank line and
\* "Confidence: <numeral>", the dict has sub_request None and the numeral
\* as its confidence.
C10_BlankSubLine ==
    \A t \in Threads : \A p \in RequestTypeSet, n \in Numerals :
        ( /\ Classified(t)
          /\ response[t].status_code = 200
          /\ response[t].content = p \o "\n" \o "" \o "\n" \o "Confidence: " \o n )
        => /\ deepseek_result[t].sub_request = None
           /\ deepseek_result[t].confidence = FloatOf(n)

====
